---- MODULE Spec2Model ----
(***************************************************************************)
(* Model of server.py: a static file server whose request handler          *)
(* (SecurityHeaderHandler) overrides end_headers to add the two            *)
(* cross-origin isolation headers, run by HTTPServer.serve_forever on      *)
(* localhost:3000.  The handler and the serve loop are inherited from      *)
(* http.server / socketserver (CPython 3.11); the inherited methods are    *)
(* translated here because server.py runs them unchanged.                  *)
(*                                                                         *)
(* Text is modelled as sequences of tokens.  A request path is a sequence  *)
(* of tokens, each either a "/" or one whole segment between slashes;      *)
(* "%2f", "%2e" and "%2e%2e" are percent-encoded segments.  A version      *)
(* token such as HTTP/1.0 is <<"HTTP/", "1", ".", "0">>.  A response is    *)
(* the sequence of chunks written to the socket: a status line, header     *)
(* lines, the blank line ending the headers, and a body.                   *)
(***************************************************************************)
EXTENDS Integers, Sequences, FiniteSets, TLC

VARIABLES pc, exit_status, stdout, signalled, listener, backlog,
          request, handler, memo

vars == <<pc, exit_status, stdout, signalled, listener, backlog,
          request, handler, memo>>

\* ------------------------------------------------------------------ bounds
MaxBacklog == 2      \* connections waiting in the listen queue
MaxClock == 1        \* wall-clock values a Date header can take: 0..MaxClock

\* --------------------------------------------------------- program constants
port == 3000
EXIT_UNCAUGHT == 1      \* interpreter exit status after an uncaught exception
EXIT_SIGINT == 130      \* 128 + SIGINT: uncaught KeyboardInterrupt re-raises SIGINT

Procs == {1, 2}         \* two instances of the program started on one machine

banner == [text |-> "Serving on http://localhost:{port} (With Secure Headers)", port |-> port]

\* -------------------------------------------------------------- file system
directory == <<"srv", "www">>          \* os.getcwd() of the process

FileNode(content, size, mtime, readable) ==
    [type |-> "file", content |-> content, size |-> size, mtime |-> mtime,
     readable |-> readable, listable |-> FALSE]
DirNode(listable) ==
    [type |-> "dir", content |-> <<>>, size |-> 0, mtime |-> 1,
     readable |-> FALSE, listable |-> listable]

\* The tree on disk: the served root srv/www and a file beside it, outside
\* the root.  "s" is a file the process may not open, "u" a directory it may
\* not list.
Tree ==
    ( <<"srv">>                      :> DirNode(TRUE) ) @@
    ( <<"srv", "secret">>            :> FileNode(<<"SECRET">>, 6, 1, TRUE) ) @@
    ( <<"srv", "www">>               :> DirNode(TRUE) ) @@
    ( <<"srv", "www", "f">>          :> FileNode(<<"FILE-F">>, 6, 1, TRUE) ) @@
    ( <<"srv", "www", "s">>          :> FileNode(<<"FILE-S">>, 6, 1, FALSE) ) @@
    ( <<"srv", "www", "d">>          :> DirNode(TRUE) ) @@
    ( <<"srv", "www", "d", "index.html">> :> FileNode(<<"INDEX-D">>, 7, 1, TRUE) ) @@
    ( <<"srv", "www", "e">>          :> DirNode(TRUE) ) @@
    ( <<"srv", "www", "e", "g">>     :> FileNode(<<"FILE-G">>, 6, 1, TRUE) ) @@
    ( <<"srv", "www", "u">>          :> DirNode(FALSE) )

\* The path walk of the operating system: "." stays, ".." goes to the
\* parent (the parent of / is /).
RECURSIVE OsWalk(_, _)
OsWalk(p, at) ==
    IF p = <<>> THEN at
    ELSE IF Head(p) = "." THEN OsWalk(Tail(p), at)
    ELSE IF Head(p) = ".."
         THEN OsWalk(Tail(p), IF at = <<>> THEN at ELSE SubSeq(at, 1, Len(at) - 1))
    ELSE OsWalk(Tail(p), Append(at, Head(p)))
realpath(p) == OsWalk(p, <<>>)

exists(p) == realpath(p) \in DOMAIN Tree
stat(p) == Tree[realpath(p)]
isdir(p) == exists(p) /\ stat(p).type = "dir"
isfile(p) == exists(p) /\ stat(p).type = "file"

IsPrefix(s, t) == Len(s) <= Len(t) /\ SubSeq(t, 1, Len(s)) = s

\* os.listdir(path), then list.sort(key=lambda a: a.lower()): the names are
\* lower-case single letters here, so the order is the order of NameRank.
NameRank(n) ==
    CASE n = "d" -> 1 [] n = "e" -> 2 [] n = "f" -> 3 [] n = "g" -> 4
      [] n = "index.html" -> 5 [] n = "s" -> 6 [] n = "u" -> 7 [] OTHER -> 8
Children(p) == { q[Len(q)] : q \in { r \in DOMAIN Tree : Len(r) = Len(p) + 1 /\ IsPrefix(p, r) } }
RECURSIVE SortNames(_)
SortNames(S) ==
    IF S = {} THEN <<>>
    ELSE LET m == CHOOSE x \in S : \A y \in S : NameRank(x) <= NameRank(y)
         IN <<m>> \o SortNames(S \ {m})
listdir_sorted(p) == SortNames(Children(realpath(p)))

\* ------------------------------------------------------------------- tokens
V09 == <<"HTTP/", "0", ".", "9">>           \* 'HTTP/0.9', default_request_version
V10 == <<"HTTP/", "1", ".", "0">>           \* protocol_version of the handler
V11 == <<"HTTP/", "1", ".", "1">>
NoVersion == <<>>                           \* request_version = ''

Digits == {"0", "1", "2", "9"}
DigitVal(c) == CASE c = "0" -> 0 [] c = "1" -> 1 [] c = "2" -> 2 [] c = "9" -> 9 [] OTHER -> 0

COEP == "Cross-Origin-Embedder-Policy"
COOP == "Cross-Origin-Opener-Policy"

\* ------------------------------------------------------------------- chunks
StatusLine(code, message) ==
    [kind |-> "status", name |-> "HTTP/1.0", num |-> code, value |-> message]
HeaderLine(keyword, num, value) ==
    [kind |-> "header", name |-> keyword, num |-> num, value |-> value]
BlankLine == [kind |-> "end", name |-> "", num |-> 0, value |-> <<>>]
Body(what, num, value) ==
    [kind |-> "body", name |-> what, num |-> num, value |-> value]

\* ---------------------------------------------------------- text utilities
RECURSIVE Flatten(_)
Flatten(ws) == IF ws = <<>> THEN <<>> ELSE Head(ws) \o Flatten(Tail(ws))

\* str.split(sep) on a token sequence: the components between separators,
\* "" for an empty one.
RECURSIVE SplitFrom(_, _, _)
SplitFrom(toks, sep, cur) ==
    IF toks = <<>> THEN <<cur>>
    ELSE IF Head(toks) = sep THEN <<cur>> \o SplitFrom(Tail(toks), sep, "")
    ELSE SplitFrom(Tail(toks), sep, Head(toks))
Split(toks, sep) == SplitFrom(toks, sep, "")

\* s.split(sep, 1)[0]: the tokens before the first separator.
RECURSIVE Before(_, _)
Before(toks, sep) ==
    IF toks = <<>> \/ Head(toks) = sep THEN <<>>
    ELSE <<Head(toks)>> \o Before(Tail(toks), sep)

\* urllib.parse.unquote on one token
UnquoteTok(t) ==
    CASE t = "%2f" -> "/" [] t = "%2e" -> "." [] t = "%2e%2e" -> ".." [] OTHER -> t
unquote(toks) == [i \in 1..Len(toks) |-> UnquoteTok(toks[i])]

RECURSIVE lstrip_slash(_)
lstrip_slash(toks) ==
    IF toks # <<>> /\ Head(toks) = "/" THEN lstrip_slash(Tail(toks)) ELSE toks

\* posixpath.normpath, returning the components it keeps (the leading
\* slashes it restores are dropped again by the caller's filter(None, ...)).
RECURSIVE NormComps(_, _, _)
NormComps(comps, initial_slashes, new_comps) ==
    IF comps = <<>> THEN new_comps
    ELSE LET comp == Head(comps)
             rest == Tail(comps)
         IN IF comp \in {"", "."} THEN NormComps(rest, initial_slashes, new_comps)
            ELSE IF comp # ".."
                    \/ (~initial_slashes /\ new_comps = <<>>)
                    \/ (new_comps # <<>> /\ new_comps[Len(new_comps)] = "..")
                 THEN NormComps(rest, initial_slashes, Append(new_comps, comp))
            ELSE IF new_comps # <<>>
                 THEN NormComps(rest, initial_slashes, SubSeq(new_comps, 1, Len(new_comps) - 1))
            ELSE NormComps(rest, initial_slashes, new_comps)
normpath(toks) ==
    NormComps(Split(toks, "/"), toks # <<>> /\ Head(toks) = "/", <<>>)

\* ------------------------------------------------------ the request handler
\* A handler object as BaseHTTPRequestHandler.__init__ / setup leave it: no
\* request parsed, no _headers_buffer, nothing written to wfile.
\* base_end_calls counts the calls of the base class's end_headers.
NewHandler ==
    [request_version |-> NoVersion, command |-> <<>>, path |-> <<>>,
     requestline |-> <<>>, close_connection |-> TRUE,
     buf |-> <<>>, wfile |-> <<>>, base_end_calls |-> 0]

protocol_version == V10

\* Python compares the version strings 'HTTP/x.y' lexicographically; for one
\* digit per component that is the order of the pairs (x, y).
VersionPair(v) == <<DigitVal(v[2]), DigitVal(v[4])>>
PairGE(a, b) == a[1] > b[1] \/ (a[1] = b[1] /\ a[2] >= b[2])

\* http.server.BaseHTTPRequestHandler.responses[code][0]
ShortMsg(code) ==
    CASE code = 200 -> <<"OK">>
      [] code = 301 -> <<"Moved Permanently">>
      [] code = 304 -> <<"Not Modified">>
      [] code = 414 -> <<"Request-URI Too Long">>
      [] OTHER -> <<"???">>

send_response_only(h, code, message) ==
    IF h.request_version # V09
    THEN [h EXCEPT !.buf = Append(@, StatusLine(code, message))]
    ELSE h

send_header(h, keyword, num, value) ==
    LET h1 == IF h.request_version # V09
              THEN [h EXCEPT !.buf = Append(@, HeaderLine(keyword, num, value))]
              ELSE h
    IN IF keyword = "Connection"
       THEN IF value = <<"close">> THEN [h1 EXCEPT !.close_connection = TRUE]
            ELSE IF value = <<"keep-alive">> THEN [h1 EXCEPT !.close_connection = FALSE]
            ELSE h1
       ELSE h1

flush_headers(h) == [h EXCEPT !.wfile = @ \o h.buf, !.buf = <<>>]

\* BaseHTTPRequestHandler.end_headers
base_end_headers(h) ==
    LET h1 == [h EXCEPT !.base_end_calls = @ + 1]
    IN IF h1.request_version # V09
       THEN flush_headers([h1 EXCEPT !.buf = Append(@, BlankLine)])
       ELSE h1

\* Variants of end_headers with one slip each.
end_headers_no_coop(h) ==
    base_end_headers(send_header(h, COEP, 0, <<"require-corp">>))
end_headers_no_delegate(h) ==
    send_header(
        send_header(h, COEP, 0, <<"require-corp">>),
        COOP, 0, <<"same-origin">>)
end_headers_success_only(h) ==
    IF h.buf # <<>> /\ h.buf[1].kind = "status" /\ h.buf[1].num < 400
    THEN base_end_headers(
             send_header(
                 send_header(h, COEP, 0, <<"require-corp">>),
                 COOP, 0, <<"same-origin">>))
    ELSE base_end_headers(h)
end_headers_first_only(h) ==
    IF ~memo.set
    THEN base_end_headers(
             send_header(
                 send_header(h, COEP, 0, <<"require-corp">>),
                 COOP, 0, <<"same-origin">>))
    ELSE base_end_headers(h)
end_headers_late(h) ==
    send_header(
        send_header(base_end_headers(h), COEP, 0, <<"require-corp">>),
        COOP, 0, <<"same-origin">>)

\* SecurityHeaderHandler.end_headers
end_headers(h) ==
    base_end_headers(
        send_header(
            send_header(h, COEP, 0, <<"require-corp">>),
            COOP, 0, <<"same-origin">>))

send_response(h, code, message, now) ==
    send_header(
        send_header(send_response_only(h, code, message), "Server", 0, <<"SimpleHTTP/0.6">>),
        "Date", now, <<>>)

\* send_error(code, message): the error page is formatted from the code and
\* the message; its length stands for len(body).
send_error(h, code, message, now) ==
    LET h1 == send_header(send_response(h, code, message, now), "Connection", 0, <<"close">>)
        has_body == code >= 200 /\ code \notin {204, 205, 304}
        body == Body("error", code, message)
        h2 == IF has_body
              THEN send_header(
                       send_header(h1, "Content-Type", 0, <<"text/html;charset=utf-8">>),
                       "Content-Length", Len(message), <<>>)
              ELSE h1
        h3 == end_headers(h2)
    IN IF h3.command # <<"HEAD">> /\ has_body
       THEN [h3 EXCEPT !.wfile = Append(@, body)]
       ELSE h3

\* The version check of parse_request: not 'HTTP/' followed by exactly two
\* components of digits.
BadVersion(version) ==
    \/ version = <<>>
    \/ version[1] # "HTTP/"
    \/ LET version_number == Split(Tail(version), ".")
       IN \/ Len(version_number) # 2
          \/ \E i \in 1..Len(version_number) : version_number[i] \notin Digits
VersionNumber(version) ==
    LET version_number == Split(Tail(version), ".")
    IN <<DigitVal(version_number[1]), DigitVal(version_number[2])>>

\* parse_request, from the point where the request line has two or three
\* words and its version, if any, is accepted.
parse_rest(h, req, now) ==
    LET words == req.words
        command == words[1]
        path == words[2]
        hc == IF Len(words) = 2 THEN [h EXCEPT !.close_connection = TRUE] ELSE h
    IN IF Len(words) = 2 /\ command # <<"GET">>
       THEN [ok |-> FALSE,
             h |-> send_error(hc, 400, <<"Bad HTTP/0.9 request type">> \o command, now)]
       ELSE LET p2 == IF Len(path) >= 2 /\ path[1] = "/" /\ path[2] = "/"
                      THEN <<"/">> \o lstrip_slash(path)
                      ELSE path
                hd == [hc EXCEPT !.command = command, !.path = p2]
                conntype == req.hdr.connection
                he == IF conntype = "close" THEN [hd EXCEPT !.close_connection = TRUE]
                      ELSE IF conntype = "keep-alive"
                              /\ PairGE(VersionPair(protocol_version), <<1, 1>>)
                           THEN [hd EXCEPT !.close_connection = FALSE]
                           ELSE hd
            IN IF req.hdr.toolong
               THEN [ok |-> FALSE, h |-> send_error(hd, 431, <<"Line too long">>, now)]
               ELSE IF req.hdr.expect
                       /\ PairGE(VersionPair(protocol_version), <<1, 1>>)
                       /\ PairGE(VersionPair(he.request_version), <<1, 1>>)
                    THEN \* handle_expect_100
                         [ok |-> TRUE,
                          h |-> end_headers(send_response_only(he, 100, <<"Continue">>))]
                    ELSE [ok |-> TRUE, h |-> he]

parse_request(h0, req, now) ==
    LET words == req.words
        n == Len(words)
        requestline == Flatten(words)
        h == [h0 EXCEPT !.command = <<>>, !.request_version = V09,
                        !.close_connection = TRUE, !.requestline = requestline]
    IN IF n = 0 THEN [ok |-> FALSE, h |-> h]
       ELSE LET version == words[n]
            IN IF n >= 3 /\ BadVersion(version)
               THEN [ok |-> FALSE,
                     h |-> send_error(h, 400, <<"Bad request version">> \o version, now)]
               ELSE LET ha == IF n >= 3
                                 /\ PairGE(VersionNumber(version), <<1, 1>>)
                                 /\ PairGE(VersionPair(protocol_version), <<1, 1>>)
                              THEN [h EXCEPT !.close_connection = FALSE]
                              ELSE h
                    IN IF n >= 3 /\ PairGE(VersionNumber(version), <<2, 0>>)
                       THEN [ok |-> FALSE,
                             h |-> send_error(ha, 505,
                                     <<"Invalid HTTP version">> \o Tail(version), now)]
                       ELSE LET hb == IF n >= 3
                                      THEN [ha EXCEPT !.request_version = version]
                                      ELSE ha
                            IN IF ~(2 <= n /\ n <= 3)
                               THEN [ok |-> FALSE,
                                     h |-> send_error(hb, 400,
                                             <<"Bad request syntax">> \o requestline, now)]
                               ELSE parse_rest(hb, req, now)

\* translate_path without the test that skips '.' and '..' components
translate_path_unfiltered(path) ==
    LET p1 == Before(Before(path, "?"), "#")
        trailing_slash == p1 # <<>> /\ p1[Len(p1)] = "/"
        words == SelectSeq(normpath(unquote(p1)), LAMBDA word : word # "")
    IN [path |-> directory \o words, trailing_slash |-> trailing_slash]

\* SimpleHTTPRequestHandler.translate_path: the file-system path, as the
\* components under self.directory, and whether a '/' is appended to it.
translate_path(path) ==
    LET p1 == Before(Before(path, "?"), "#")
        trailing_slash == p1 # <<>> /\ p1[Len(p1)] = "/"
        words == SelectSeq(normpath(unquote(p1)),
                           LAMBDA word : word # "" /\ word \notin {".", ".."})
    IN [path |-> directory \o words, trailing_slash |-> trailing_slash]

\* guess_type: by the extension of the last component
guess_type(path) ==
    IF path[Len(path)] \in {"index.html", "index.htm"}
    THEN <<"text/html">> ELSE <<"application/octet-stream">>

\* list_directory
list_directory(h, path, now) ==
    IF ~stat(path).listable
    THEN [h |-> send_error(h, 404, <<"No permission to list directory">>, now),
          f |-> <<>>]
    ELSE LET list == listdir_sorted(path)
             encoded == <<"Directory listing for">> \o unquote(h.path) \o list
             h1 == send_header(
                       send_header(send_response(h, 200, ShortMsg(200), now),
                                   "Content-type", 0, <<"text/html; charset=utf-8">>),
                       "Content-Length", Len(encoded), <<>>)
         IN [h |-> end_headers(h1), f |-> <<Body("listing", Len(encoded), encoded)>>]

\* send_head from "ctype = self.guess_type(path)" on: path names no
\* directory, or the index file of one.
send_file_head(h, path, ends_with_slash, req, now) ==
    LET ctype == guess_type(path)
    IN IF ends_with_slash
       THEN [h |-> send_error(h, 404, <<"File not found">>, now), f |-> <<>>]
       ELSE IF ~(isfile(path) /\ stat(path).readable)     \* open(path, 'rb') raises OSError
       THEN [h |-> send_error(h, 404, <<"File not found">>, now), f |-> <<>>]
       ELSE LET fs == stat(path)
            IN IF req.hdr.ims >= 0 /\ ~req.hdr.inm /\ fs.mtime <= req.hdr.ims
               THEN [h |-> end_headers(send_response(h, 304, ShortMsg(304), now)),
                     f |-> <<>>]
               ELSE LET h1 == send_header(
                                send_header(
                                  send_header(send_response(h, 200, ShortMsg(200), now),
                                              "Content-type", 0, ctype),
                                  "Content-Length", fs.size, <<>>),
                                "Last-Modified", fs.mtime, <<>>)
                    IN [h |-> end_headers(h1),
                        f |-> <<Body("file", fs.size, fs.content)>>]

\* send_head: the response head, and the file object to copy (<<>> for None).
send_head(h, req, now) ==
    LET t == translate_path(h.path)
        path == t.path
        parts_path == Before(Before(h.path, "?"), "#")     \* urlsplit(self.path).path
        rest == SubSeq(h.path, Len(parts_path) + 1, Len(h.path))
    IN IF isdir(path)
       THEN IF ~(parts_path # <<>> /\ parts_path[Len(parts_path)] = "/")
            THEN [h |-> end_headers(
                          send_header(
                            send_header(send_response(h, 301, ShortMsg(301), now),
                                        "Location", 0, parts_path \o <<"/">> \o rest),
                            "Content-Length", 0, <<>>)),
                  f |-> <<>>]
            ELSE IF isfile(path \o <<"index.html">>)
                 THEN send_file_head(h, path \o <<"index.html">>, FALSE, req, now)
            ELSE IF isfile(path \o <<"index.htm">>)
                 THEN send_file_head(h, path \o <<"index.htm">>, FALSE, req, now)
            ELSE list_directory(h, path, now)
       ELSE send_file_head(h, path, t.trailing_slash, req, now)

\* do_GET copies the file to wfile, do_HEAD closes it.
do_GET(h, req, now) ==
    LET r == send_head(h, req, now)
    IN [r.h EXCEPT !.wfile = @ \o r.f]
do_HEAD(h, req, now) == send_head(h, req, now).h

\* One pass of handle_one_request up to the dispatch on the method: the
\* handler afterwards, and whether do_GET / do_HEAD is to be called.
handle_one_request(h, req, now) ==
    IF req.raw = "toolong"                     \* len(raw_requestline) > 65536
    THEN [dispatch |-> FALSE,
          h |-> send_error([h EXCEPT !.requestline = <<>>, !.request_version = NoVersion,
                                     !.command = <<>>],
                           414, ShortMsg(414), now)]
    ELSE IF req.raw = "eof"                    \* not self.raw_requestline
    THEN [dispatch |-> FALSE, h |-> [h EXCEPT !.close_connection = TRUE]]
    ELSE LET r == parse_request(h, req, now)
         IN IF ~r.ok THEN [dispatch |-> FALSE, h |-> r.h]
            ELSE IF r.h.command \notin {<<"GET">>, <<"HEAD">>}     \* not hasattr(self, mname)
            THEN [dispatch |-> FALSE,
                  h |-> send_error(r.h, 501, <<"Unsupported method">> \o r.h.command, now)]
            ELSE [dispatch |-> TRUE, h |-> r.h]

\* ------------------------------------------------------------------ inputs
NoHdr == [ims |-> -1, inm |-> FALSE, toolong |-> FALSE, connection |-> "", expect |-> FALSE]
HdrProfiles ==
    { NoHdr,
      [NoHdr EXCEPT !.ims = 0],
      [NoHdr EXCEPT !.ims = 2],
      [NoHdr EXCEPT !.ims = 2, !.inm = TRUE],
      [NoHdr EXCEPT !.toolong = TRUE],
      [NoHdr EXCEPT !.connection = "keep-alive", !.expect = TRUE] }

Line(words, hdr) == [raw |-> "line", words |-> words, hdr |-> hdr]
NoRequest == [raw |-> "none", words |-> <<>>, hdr |-> NoHdr]

Versions ==
    { V10, V11, V09, <<"HTTP/", "2", ".", "0">>, <<"HTTP/", "1">>,
      <<"HTTP/", "x", ".", "y">>, <<"FTP/", "1", ".", "0">> }

PathF == <<"/", "f">>
PathNope == <<"/", "nope">>
Paths ==
    { PathF, PathNope,
      <<"/">>,
      <<"/", "f", "/">>,
      <<"/", "s">>,
      <<"/", "d">>,
      <<"/", "d", "/">>,
      <<"/", "e", "/">>,
      <<"/", "e", "/", "g">>,
      <<"/", "u", "/">>,
      <<"/", "/", "f">>,
      <<"/", "f", "?", "q">>,
      <<"/", "d", "?", "q">>,
      <<"/", ".", "/", "f">>,
      <<"/", "..", "/", "f">>,
      <<"/", "..", "/">>,
      <<"/", "..", "/", "secret">>,
      <<"..", "/", "secret">>,
      <<"/", "e", "/", "..", "/", "..", "/", "secret">>,
      <<"/", "%2e%2e", "/", "f">>,
      <<"/", "%2e%2e", "%2f", "secret">>,
      <<"/", "..", "/", "..", "/", "srv", "/", "secret">> }

Requests ==
    { [NoRequest EXCEPT !.raw = "eof"], [NoRequest EXCEPT !.raw = "toolong"],
      Line(<<>>, NoHdr), Line(<< <<"GET">> >>, NoHdr) }
    \cup { Line(<<m, p, V10>>, NoHdr) : m \in {<<"GET">>, <<"HEAD">>}, p \in Paths }
    \cup { Line(<<m, p>>, NoHdr) : m \in {<<"GET">>, <<"HEAD">>, <<"POST">>}, p \in {PathF, PathNope} }
    \cup { Line(<<m, p, v>>, NoHdr) : m \in {<<"GET">>, <<"POST">>}, p \in {PathF, PathNope}, v \in Versions }
    \cup { Line(<< <<"GET">>, PathF, <<"extra">>, v >>, NoHdr) : v \in {V10, <<"HTTP/", "x", ".", "y">>} }
    \cup { Line(<< <<"GET">>, PathF, v >>, hdr) : v \in {V10, V11}, hdr \in HdrProfiles }

\* ----------------------------------------------------------------- actions
NoMemo == [set |-> FALSE, request |-> NoRequest, wfile |-> <<>>]

Init ==
    /\ pc = [p \in Procs |-> "starting"]
    /\ exit_status = [p \in Procs |-> -1]
    /\ stdout = [p \in Procs |-> <<>>]
    /\ signalled = [p \in Procs |-> FALSE]
    /\ listener = 0
    /\ backlog = 0
    /\ request = NoRequest
    /\ handler = NewHandler
    /\ memo = NoMemo

\* port = 3000; print(...)
Start(p) ==
    /\ pc[p] = "starting"
    /\ stdout' = [stdout EXCEPT ![p] = Append(@, banner)]
    /\ pc' = [pc EXCEPT ![p] = "binding"]
    /\ UNCHANGED <<exit_status, signalled, listener, backlog, request, handler, memo>>

\* httpd = HTTPServer(('localhost', port), SecurityHeaderHandler): server_bind
\* and server_activate succeed, the socket listens.
BindOK(p) ==
    /\ pc[p] = "binding"
    /\ listener = 0
    /\ listener' = p
    /\ pc' = [pc EXCEPT ![p] = "activated"]
    /\ UNCHANGED <<exit_status, stdout, signalled, backlog, request, handler, memo>>

\* The failed bind caught and turned into a clean exit
BindFail_exit0(p) ==
    /\ pc[p] = "binding"
    /\ listener # 0
    /\ pc' = [pc EXCEPT ![p] = "exited"]
    /\ exit_status' = [exit_status EXCEPT ![p] = 0]
    /\ UNCHANGED <<stdout, signalled, listener, backlog, request, handler, memo>>

\* The same constructor when the address is in use: bind raises OSError,
\* the constructor closes its socket and re-raises, nothing catches it.
BindFail(p) ==
    /\ pc[p] = "binding"
    /\ listener # 0
    /\ pc' = [pc EXCEPT ![p] = "exited"]
    /\ exit_status' = [exit_status EXCEPT ![p] = EXIT_UNCAUGHT]
    /\ UNCHANGED <<stdout, signalled, listener, backlog, request, handler, memo>>

\* httpd.serve_forever(): the loop starts selecting on the socket
ServeForever(p) ==
    /\ pc[p] = "activated"
    /\ pc' = [pc EXCEPT ![p] = "listening"]
    /\ UNCHANGED <<exit_status, stdout, signalled, listener, backlog, request, handler, memo>>

\* A client connects to the listening socket.
Connect ==
    /\ listener # 0
    /\ backlog < MaxBacklog
    /\ backlog' = backlog + 1
    /\ UNCHANGED <<pc, exit_status, stdout, signalled, listener, request, handler, memo>>

\* A serve loop that accepts the next connection while one is in service
Accept_threaded(p) ==
    /\ pc[p] \in {"listening", "parse", "resolve", "respond"}
    /\ listener = p
    /\ backlog > 0
    /\ backlog' = backlog - 1
    /\ handler' = NewHandler
    /\ request' = NoRequest
    /\ pc' = [pc EXCEPT ![p] = "parse"]
    /\ UNCHANGED <<exit_status, stdout, signalled, listener, memo>>

\* _handle_request_noblock: get_request, then finish_request constructs the
\* handler for the accepted connection.
Accept(p) ==
    /\ pc[p] = "listening"
    /\ listener = p
    /\ backlog > 0
    /\ backlog' = backlog - 1
    /\ handler' = NewHandler
    /\ request' = NoRequest
    /\ pc' = [pc EXCEPT ![p] = "parse"]
    /\ UNCHANGED <<exit_status, stdout, signalled, listener, memo>>

\* shutdown_request after handle() returned, back in the serve_forever loop
Finished(p) ==
    /\ handler' = NewHandler
    /\ request' = NoRequest
    /\ pc' = [pc EXCEPT ![p] = "listening"]

\* handle_one_request: read the request line, parse it, look the method up.
\* Unless do_GET / do_HEAD is to run, the handler is done: it has written an
\* error response, or nothing (end of input, empty request line).
ParseRequest(p) ==
    /\ pc[p] = "parse"
    /\ \E req \in Requests, now \in 0..MaxClock :
         LET r == handle_one_request(handler, req, now)
         IN IF r.dispatch
            THEN /\ handler' = r.h
                 /\ request' = req
                 /\ pc' = [pc EXCEPT ![p] = "resolve"]
            ELSE /\ handler' = r.h
                 /\ request' = req
                 /\ pc' = [pc EXCEPT ![p] = "respond"]
    /\ UNCHANGED <<exit_status, stdout, signalled, listener, backlog, memo>>

\* method(): do_GET or do_HEAD maps the path to a file and writes the response
Resolve(p) ==
    /\ pc[p] = "resolve"
    /\ \E now \in 0..MaxClock :
         handler' = IF handler.command = <<"GET">>
                    THEN do_GET(handler, request, now)
                    ELSE do_HEAD(handler, request, now)
    /\ pc' = [pc EXCEPT ![p] = "respond"]
    /\ UNCHANGED <<exit_status, stdout, signalled, listener, backlog, request, memo>>

\* A serve loop that lets the failure of one request end the process
Respond_escalate(p) ==
    /\ pc[p] = "respond"
    /\ IF handler.wfile # <<>> /\ handler.wfile[1].kind = "status"
          /\ handler.wfile[1].num < 400
       THEN /\ Finished(p)
            /\ UNCHANGED <<exit_status, listener, backlog>>
       ELSE /\ pc' = [pc EXCEPT ![p] = "exited"]
            /\ exit_status' = [exit_status EXCEPT ![p] = EXIT_UNCAUGHT]
            /\ listener' = 0
            /\ backlog' = 0
            /\ handler' = NewHandler
            /\ request' = NoRequest
    /\ UNCHANGED <<stdout, signalled, memo>>

\* handle_one_request has returned with the response, if any, written:
\* handle() returns as close_connection is set and the connection is shut
\* down.  memo keeps one completed GET exchange.
Respond(p) ==
    /\ pc[p] = "respond"
    /\ IF handler.close_connection
       THEN Finished(p)
       ELSE /\ handler' = [handler EXCEPT !.wfile = <<>>]
            /\ request' = NoRequest
            /\ pc' = [pc EXCEPT ![p] = "parse"]
    /\ \/ memo' = memo
       \/ /\ ~memo.set
          /\ request.raw = "line" /\ request.words # <<>> /\ request.words[1] = <<"GET">>
          /\ memo' = [set |-> TRUE, request |-> request, wfile |-> handler.wfile]
    /\ UNCHANGED <<exit_status, stdout, signalled, listener, backlog>>

\* SIGINT: KeyboardInterrupt is raised in the main thread and nothing in
\* server.py catches it; the interpreter dies of the signal and the system
\* closes its sockets.
Interrupt(p) ==
    /\ pc[p] # "exited"
    /\ signalled' = [signalled EXCEPT ![p] = TRUE]
    /\ pc' = [pc EXCEPT ![p] = "exited"]
    /\ exit_status' = [exit_status EXCEPT ![p] = EXIT_SIGINT]
    /\ IF listener = p
       THEN /\ listener' = 0
            /\ backlog' = 0
            /\ handler' = NewHandler
            /\ request' = NoRequest
       ELSE UNCHANGED <<listener, backlog, handler, request>>
    /\ UNCHANGED <<stdout, memo>>

Next ==
    \/ \E p \in Procs : Start(p)
    \/ \E p \in Procs : BindOK(p)
    \/ \E p \in Procs : BindFail(p)
    \/ \E p \in Procs : ServeForever(p)
    \/ Connect
    \/ \E p \in Procs : Accept(p)
    \/ \E p \in Procs : ParseRequest(p)
    \/ \E p \in Procs : Resolve(p)
    \/ \E p \in Procs : Respond(p)
    \/ \E p \in Procs : Interrupt(p)

Spec == Init /\ [][Next]_vars

\* ------------------------------------------------------------ observations
InService(p) == pc[p] \in {"parse", "resolve", "respond"}
\* The handler of p has finished writing; what it wrote is handler.wfile.
Done(p) == pc[p] = "respond"
Answered(p) == Done(p) /\ handler.wfile # <<>>

HeaderCount(w, name) ==
    Cardinality({ i \in 1..Len(w) : w[i].kind = "header" /\ w[i].name = name })
HasHeader(w, name, value) ==
    \E i \in 1..Len(w) : w[i].kind = "header" /\ w[i].name = name /\ w[i].value = value
BothOnce(w) ==
    /\ HeaderCount(w, COEP) = 1 /\ HasHeader(w, COEP, <<"require-corp">>)
    /\ HeaderCount(w, COOP) = 1 /\ HasHeader(w, COOP, <<"same-origin">>)
\* The status code of the status line, 0 when the response has none.
Status(w) == IF w # <<>> /\ w[1].kind = "status" THEN w[1].num ELSE 0
Bodies(w) == SelectSeq(w, LAMBDA c : c.kind = "body")
HeadOnly(w) == \A i \in 1..Len(w) : w[i].kind # "body"
BodyOnly(w) == \A i \in 1..Len(w) : w[i].kind = "body"
\* The error code a response carries: its status line's, or the code of the
\* error page when it is sent without a status line.
ErrorCode(w) ==
    IF Status(w) # 0 THEN Status(w)
    ELSE IF w # <<>> /\ w[1].kind = "body" /\ w[1].name = "error" THEN w[1].num
    ELSE 0
StripDate(w) == SelectSeq(w, LAMBDA c : ~(c.kind = "header" /\ c.name = "Date"))

IsLine(req) == req.raw = "line"
NWords(req) == Len(req.words)
Http1x(v) == Len(v) = 4 /\ v[1] = "HTTP/" /\ v[2] = "1" /\ v[3] = "." /\ v[4] \in Digits
\* A request line of three words, method m, version HTTP/1.x, with headers
\* that parse.
Plain1x(req, methods) ==
    /\ IsLine(req) /\ NWords(req) = 3
    /\ req.words[1] \in methods
    /\ Http1x(req.words[3])
    /\ ~req.hdr.toolong
Target(req) == translate_path(req.words[2])
NotModified(req) ==
    /\ req.hdr.ims >= 0 /\ ~req.hdr.inm
    /\ stat(Target(req).path).mtime <= req.hdr.ims
NamesFile(req) ==
    IsLine(req) /\ NWords(req) >= 2
    /\ isfile(Target(req).path) /\ ~Target(req).trailing_slash
NamesNothing(req) ==
    IsLine(req) /\ NWords(req) >= 2 /\ ~exists(Target(req).path)
HasTraversal(req) ==
    IsLine(req) /\ NWords(req) >= 2
    /\ \E i \in 1..Len(req.words[2]) : req.words[2][i] \in {"..", "%2e%2e"}
Malformed(req) ==
    /\ IsLine(req)
    /\ \/ NWords(req) \notin {2, 3}
       \/ NWords(req) >= 3 /\ ~Http1x(req.words[NWords(req)])
                           /\ req.words[NWords(req)] # V09

Inside(q) == IsPrefix(directory, q)
\* Every body chunk is an error page, the bytes of a file under the root, or
\* the listing of a directory under the root.
NoOutsideContent(w, path) ==
    \A i \in 1..Len(w) :
        w[i].kind = "body" =>
            \/ w[i].name = "error"
            \/ /\ w[i].name = "file"
               /\ \E q \in DOMAIN Tree : Inside(q) /\ Tree[q].type = "file"
                                         /\ w[i].value = Tree[q].content
               /\ \A q \in DOMAIN Tree : ~Inside(q) /\ Tree[q].type = "file"
                                         => w[i].value # Tree[q].content
            \/ /\ w[i].name = "listing"
               /\ \E q \in DOMAIN Tree :
                    /\ Inside(q) /\ Tree[q].type = "dir"
                    /\ w[i].value = <<"Directory listing for">> \o unquote(path)
                                    \o SortNames(Children(q))

\* ------------------------------------------------------------------ claims

\* C1 as stated: every response that reaches the client, whatever the
\* request line's version, has Cross-Origin-Embedder-Policy: require-corp
\* exactly once and Cross-Origin-Opener-Policy: same-origin exactly once.
C1_AllResponsesHaveBoth ==
    \A p \in Procs : Answered(p) => BothOnce(handler.wfile)

\* C1 amended: every response sent while the request version is not
\* HTTP/0.9 has each of the two headers exactly once; a response sent while
\* it is HTTP/0.9 is the body alone, without status line or headers.
C1_ResponsesWithHeadersHaveBoth ==
    \A p \in Procs :
        Answered(p) =>
            IF handler.request_version # V09
            THEN BothOnce(handler.wfile)
            ELSE BodyOnly(handler.wfile)

C1_Witness ==
    \E p \in Procs :
        /\ Answered(p) /\ Status(handler.wfile) = 301
        /\ BothOnce(handler.wfile)

\* C2 as stated: every request whose path resolves to an existing regular
\* file under the root gets status 200, the file's bytes as the body and
\* both security headers.
C2_FileAlways200 ==
    \A p \in Procs :
        Done(p) /\ NamesFile(request) =>
            /\ Status(handler.wfile) = 200
            /\ Bodies(handler.wfile) = <<Body("file", stat(Target(request).path).size,
                                              stat(Target(request).path).content)>>
            /\ BothOnce(handler.wfile)

\* C2 amended: every GET request with a three-word HTTP/1.x request line and
\* parsable headers, whose path resolves to a regular file under the root
\* that the process can open, and that is not answered 304 for its
\* If-Modified-Since header, gets status 200, the file's bytes as the body
\* and both security headers.
C2_GetFile200 ==
    \A p \in Procs :
        ( /\ Done(p)
          /\ Plain1x(request, {<<"GET">>})
          /\ NamesFile(request)
          /\ stat(Target(request).path).readable
          /\ ~NotModified(request) ) =>
            /\ Status(handler.wfile) = 200
            /\ Bodies(handler.wfile) = <<Body("file", stat(Target(request).path).size,
                                              stat(Target(request).path).content)>>
            /\ BothOnce(handler.wfile)

C2_Witness ==
    \E p \in Procs :
        /\ Done(p) /\ Plain1x(request, {<<"GET">>})
        /\ request.words[2] = <<"/", "e", "/", "g">>
        /\ Bodies(handler.wfile) = <<Body("file", 6, <<"FILE-G">>)>>

C4_MissingAlways404 ==
    \A p \in Procs :
        Done(p) /\ NamesNothing(request) =>
            Status(handler.wfile) = 404 /\ BothOnce(handler.wfile)

\* C4 amended: every GET or HEAD request with a three-word HTTP/1.x request
\* line and parsable headers whose path names nothing under the root gets
\* status 404 and both security headers.
C4_GetMissing404 ==
    \A p \in Procs :
        ( /\ Done(p)
          /\ Plain1x(request, {<<"GET">>, <<"HEAD">>})
          /\ NamesNothing(request) ) =>
            Status(handler.wfile) = 404 /\ BothOnce(handler.wfile)

C4_Witness ==
    \E p \in Procs :
        /\ Done(p) /\ Plain1x(request, {<<"HEAD">>}) /\ NamesNothing(request)
        /\ Status(handler.wfile) = 404 /\ HeadOnly(handler.wfile)

\* C5: a process that finds the address bound when it constructs its server
\* leaves the constructor only by exiting with a non-zero status, without
\* ever listening; the listener is not disturbed; an exited process takes
\* no further step, so it never binds again.
C5_BindFailureIsFatal ==
    [][ \A p \in Procs :
          /\ ( pc[p] = "binding" /\ listener # 0 /\ pc'[p] # pc[p] ) =>
                 /\ pc'[p] = "exited"
                 /\ exit_status'[p] \notin {0, -1}
                 /\ listener' = listener
                 /\ pc'[listener] = pc[listener]
          /\ pc[p] = "exited" =>
                 /\ pc'[p] = "exited"
                 /\ exit_status'[p] = exit_status[p]
                 /\ listener' # p ]_vars

C5_Witness ==
    \E p \in Procs :
        /\ pc[p] = "exited" /\ ~signalled[p] /\ exit_status[p] = EXIT_UNCAUGHT
        /\ stdout[p] = <<banner>>
        /\ listener \in Procs \ {p} /\ pc[listener] = "listening"

\* C6 as stated: a process that the interrupt signal ends while it is
\* listening or handling a request exits with status 0.
C6_InterruptExitsZero ==
    [][ \A p \in Procs :
          ( pc[p] \in {"listening", "parse", "resolve", "respond"}
            /\ pc'[p] = "exited" /\ signalled'[p] ) =>
              exit_status'[p] = 0 ]_vars

Unsupported(v) ==
    Len(v) = 4 /\ v[1] = "HTTP/" /\ v[2] \in {"2", "9"} /\ v[3] = "." /\ v[4] \in Digits

\* C7 as stated: every malformed request is answered with a 400 error.
C7_MalformedGets400 ==
    \A p \in Procs :
        Done(p) /\ Malformed(request) =>
            handler.wfile # <<>> /\ ErrorCode(handler.wfile) = 400

\* C7 amended: a malformed request is dealt with inside its own connection:
\* an empty request line gets no response, a version of HTTP/2.0 or above
\* gets the error page 505, any other malformed line the error page 400
\* (as a body alone when the request version is still HTTP/0.9); the process
\* keeps running and its next step is back to listening with a fresh handler.
C7_MalformedHandledLocally ==
    /\ [] ( \A p \in Procs :
              Done(p) /\ Malformed(request) =>
                  /\ exit_status[p] = -1 /\ listener = p
                  /\ IF NWords(request) = 0 THEN handler.wfile = <<>>
                     ELSE IF NWords(request) >= 3
                             /\ Unsupported(request.words[NWords(request)])
                          THEN ErrorCode(handler.wfile) = 505
                          ELSE ErrorCode(handler.wfile) = 400
                  /\ handler.request_version = V09 => BodyOnly(handler.wfile) )
    /\ [][ \A p \in Procs :
             ( Done(p) /\ pc'[p] # pc[p] /\ ~signalled'[p] ) =>
                 /\ pc'[p] = "listening"
                 /\ exit_status'[p] = -1
                 /\ listener' = p
                 /\ handler' = NewHandler ]_vars

C7_Witness ==
    \E p \in Procs :
        /\ Done(p) /\ Malformed(request) /\ NWords(request) = 4
        /\ Status(handler.wfile) = 400 /\ BothOnce(handler.wfile)

HeaderBlockOK(w) ==
    ( \E i \in 1..Len(w) : w[i].kind # "body" ) =>
        \E e \in 3..Len(w) :
            /\ w[e] = BlankLine
            /\ w[e - 2] = HeaderLine(COEP, 0, <<"require-corp">>)
            /\ w[e - 1] = HeaderLine(COOP, 0, <<"same-origin">>)
            /\ \A i \in 1..(e - 3) : w[i].kind \in {"status", "header"}
                                     /\ w[i].name \notin {COEP, COOP}
            /\ \A i \in (e + 1)..Len(w) : w[i].kind = "body"
C9_HeadersLastThenFlush ==
    /\ HeaderBlockOK(handler.wfile)
    /\ \A p \in Procs :
          Answered(p) => handler.base_end_calls = 1 /\ handler.buf = <<>>

C9_Witness ==
    \E p \in Procs :
        /\ Answered(p) /\ Status(handler.wfile) = 304
        /\ Len(handler.wfile) = 6
        /\ handler.wfile[6] = BlankLine
        /\ handler.base_end_calls = 1

\* C10: the serve loop. A process moves only along starting, (binding,
\* activated,) listening, parse, resolve, respond, listening; at most one
\* connection is in service; a pending connection is accepted only by a
\* listening process with no connection in service; the step after a
\* response is back to listening, unless the process is ended.
Edges ==
    { <<"starting", "binding">>, <<"binding", "activated">>, <<"binding", "exited">>,
      <<"activated", "listening">>, <<"listening", "parse">>, <<"parse", "resolve">>,
      <<"parse", "respond">>, <<"resolve", "respond">>, <<"respond", "listening">> }
C10_ServeLoop ==
    /\ [] ( /\ Cardinality({ p \in Procs : InService(p) }) <= 1
            /\ \A p \in Procs : InService(p) => listener = p
            /\ \A p \in Procs : ~InService(p) /\ listener = p =>
                   handler = NewHandler /\ request = NoRequest )
    /\ [][ \A p \in Procs :
             pc'[p] # pc[p] =>
                 \/ <<pc[p], pc'[p]>> \in Edges
                 \/ pc'[p] = "exited" /\ signalled'[p] ]_vars
    /\ [][ ( backlog' < backlog /\ listener' # 0 ) =>
             /\ pc[listener] = "listening"
             /\ pc'[listener] = "parse"
             /\ backlog' = backlog - 1 ]_vars

C10_Witness ==
    \E p \in Procs :
        /\ pc[p] = "respond" /\ handler.wfile # <<>>
        /\ backlog = MaxBacklog


====
